---- MODULE Spec2Model ----
(***************************************************************************)
(* NUST Shuttles: the live shuttle synchronization session (useShuttles,   *)
(* subscribeToShuttles, isShuttleActive) and the selection / nearest       *)
(* vehicle controller of App.jsx, as a state machine.                      *)
(*                                                                         *)
(* JavaScript values are records [t |-> <typeof>, v |-> <text>], so that   *)
(* truthiness, === and the string/number conversions are computed the way  *)
(* the code computes them.                                                 *)
(***************************************************************************)
EXTENDS Integers, Sequences, FiniteSets, TLC

VARIABLES
    shuttles,           \* useShuttles: useState([])     processed records
    loading,            \* useShuttles: useState(true)
    error,              \* useShuttles: useState(null)
    lastUpdated,        \* useShuttles: useState(null)   <<>> is null, <<t>> a Date
    selectedShuttleId,  \* App: useState(null)
    nearestShuttleId,   \* App: useState(null)
    isLocating,         \* App: useState(false)
    pending,            \* getCurrentPosition calls awaiting a callback, oldest first
    alertMessage,       \* text of the alert() raised by the last handler, "" if none
    listener,           \* the onValue listener: "listening", "cancelled", "off"
    now,                \* wall clock, milliseconds
    pushDelivered,      \* history: a feed push (snapshot) has been delivered
    feedFailed,         \* history: the feed's error callback has fired
    second,             \* a second useShuttles session on the same feed, if any
    lastOp              \* history: the handler that ran last, and its inputs

vars == << shuttles, loading, error, lastUpdated, selectedShuttleId,
           nearestShuttleId, isLocating, pending, alertMessage, listener, now,
           pushDelivered, feedFailed, second, lastOp >>

hookVars == << shuttles, loading, error, lastUpdated >>
selectionVars == << selectedShuttleId, nearestShuttleId >>

----------------------------------------------------------------------------
(* Bounds of the model *)

\* clock ticks the model lets pass
MaxTicks == 1
\* getCurrentPosition calls that may be outstanding when the handler is
\* invoked directly (SpecController)
MaxInFlight == 2
\* readings of the clock, in ticks from 0, the classifier is compared at
MaxReadings == 4

\* one clock tick, and the clock's first reading
TickMs == 150 * 1000
StartMs == 2 * TickMs

----------------------------------------------------------------------------
(* JavaScript values *)

Val(t, v) == [t |-> t, v |-> v]
null == Val("null", "")
undefined == Val("undefined", "")
Str(s) == Val("string", s)
Num(s) == Val("number", s)

\* ToBoolean
Truthy(x) ==
    CASE x.t = "string" -> x.v # ""
      [] x.t = "number" -> x.v \notin {"0", "NaN"}
      [] x.t = "boolean" -> x.v = "true"
      [] x.t \in {"array", "object"} -> TRUE
      [] OTHER -> FALSE

\* an array value (v holds its elements) and Array.isArray
Arr(items) == Val("array", items)
IsArray(x) == x.t = "array"

\* a || b
Or(a, b) == IF Truthy(a) THEN a ELSE b

\* the decimal texts the model's feed uses, and their numbers
NumericText == {"0", "1", "2", "3", "12", "150000"}
TextToNumber(s) ==
    CASE s = "0" -> 0
      [] s = "1" -> 1
      [] s = "2" -> 2
      [] s = "3" -> 3
      [] s = "12" -> 12
      [] s = "150000" -> 150000
      [] OTHER -> 0

\* parseFloat / parseInt(_, 10): a number, or NaN
NaN == [nan |-> TRUE, n |-> 0]
parseFloat(x) ==
    IF x.t \in {"string", "number"} /\ x.v \in NumericText
    THEN [nan |-> FALSE, n |-> TextToNumber(x.v)]
    ELSE NaN
parseInt(x) == parseFloat(x)

ParseOrZero_NumbersOnly(x) ==
    LET p == parseFloat(x)
    IN IF x.t # "number" \/ p.nan \/ p.n = 0 THEN 0 ELSE p.n

\* parseFloat(x) || 0
ParseOrZero(x) ==
    LET p == parseFloat(x)
    IN IF p.nan \/ p.n = 0 THEN 0 ELSE p.n

\* String.prototype.toLowerCase on the status texts of the model's feed
toLowerCase(s) ==
    CASE s = "ACTIVE" -> "active"
      [] s = "True" -> "true"
      [] OTHER -> s

----------------------------------------------------------------------------
(* The feed: payloads the external store can push *)

\* one entry of the store; the fields the five arguments do not give are
\* absent from it
Entry(id, latitude, logitude, activeStatus, lastActiveTime) ==
    [id |-> id, latitude |-> latitude, logitude |-> logitude,
     activeStatus |-> activeStatus, lastActiveTime |-> lastActiveTime,
     longitude |-> undefined, prevLat |-> undefined, prevLong |-> undefined,
     speed |-> undefined, route |-> undefined]

\* field sets of one shuttle as the store may hold them: `id` is undefined
\* unless the entry carries an id field of its own
RawEntries ==
    { Entry(undefined, Str("1"), Str("1"), Str("active"), Str("0")),
      Entry(undefined, Str("3"), Str("1"), Str("ACTIVE"), undefined),
      Entry(undefined, undefined, Str("1"), Str("true"), undefined),
      Entry(undefined, Str("2"), Str("1"), Str("inactive"), Str("150000")),
      Entry(Str(""), Str("2"), Str("1"), Str("1"), undefined),
      Entry(undefined, Str("1"), Str("1"), Num("1"), undefined) }

Keys == << "s1", "s2" >>

\* snapshot.val(): the entries in key order; <<>> is null (empty root)
Payloads ==
    { <<>> }
    \cup { << [key |-> Keys[k], shuttle |-> e] >> : k \in 1..2, e \in RawEntries }
    \cup { << [key |-> Keys[1], shuttle |-> e1], [key |-> Keys[2], shuttle |-> e2] >> :
             e1 \in RawEntries, e2 \in RawEntries }

\* positions the geolocation provider may report
UserLats == {1, 2}
UserLng == 1

\* GeolocationPositionError codes
ErrorCodes == {"PERMISSION_DENIED", "POSITION_UNAVAILABLE", "TIMEOUT"}

----------------------------------------------------------------------------
(* firebase.js *)

fiveMinutes == 5 * 60 * 1000

\* subscribeToShuttles: ([id, shuttle]) => ({ id, ...shuttle, latitude: ... })
NormalizeEntry(key, shuttle) ==
    [id |-> IF shuttle.id = undefined THEN Str(key) ELSE shuttle.id,
     latitude |-> ParseOrZero(shuttle.latitude),
     longitude |-> ParseOrZero(shuttle.logitude),
     prevLat |-> ParseOrZero(shuttle.prevLat),
     prevLong |-> ParseOrZero(shuttle.prevLong),
     speed |-> ParseOrZero(shuttle.speed),
     activeStatus |-> shuttle.activeStatus,
     lastActiveTime |-> shuttle.lastActiveTime,
     route |-> shuttle.route]

\* Object.entries(data).map(...)
ShuttlesArray(data) ==
    [i \in 1..Len(data) |-> NormalizeEntry(data[i].key, data[i].shuttle)]

\* what the snapshot callback hands to the hook's callback for a payload
Normalized(data) == IF data # << >> THEN ShuttlesArray(data) ELSE << >>

\* isShuttleActive calls toLowerCase on a truthy activeStatus: a TypeError
\* when that value is not a string
IsShuttleActiveThrows(shuttle) ==
    Truthy(shuttle.activeStatus) /\ shuttle.activeStatus.t # "string"

isShuttleActive_StaleIsActive(shuttle, clock) ==
    IF Truthy(shuttle.activeStatus)
       /\ toLowerCase(shuttle.activeStatus.v) \in {"active", "true", "1"}
    THEN TRUE
    ELSE IF Truthy(shuttle.lastActiveTime) /\ shuttle.lastActiveTime # Str("0")
         THEN LET timestamp == parseInt(shuttle.lastActiveTime)
              IN IF ~timestamp.nan
                 THEN (clock - timestamp.n) > fiveMinutes
                 ELSE FALSE
         ELSE FALSE

isShuttleActive(shuttle, clock) ==
    IF Truthy(shuttle.activeStatus)
       /\ toLowerCase(shuttle.activeStatus.v) \in {"active", "true", "1"}
    THEN TRUE
    ELSE IF Truthy(shuttle.lastActiveTime) /\ shuttle.lastActiveTime # Str("0")
         THEN LET timestamp == parseInt(shuttle.lastActiveTime)
              IN IF ~timestamp.nan
                 THEN (clock - timestamp.n) < fiveMinutes
                 ELSE FALSE
         ELSE FALSE

----------------------------------------------------------------------------
(* useShuttles *)

\* the filter of formatRoutePath: point && (point.lat || point.latitude)
\* && (point.lng || point.longitude)
PointIsUsable(point) ==
    /\ Truthy(point)
    /\ Truthy(Or(point.v.lat, point.v.latitude))
    /\ Truthy(Or(point.v.lng, point.v.longitude))

\* the map of formatRoutePath: [parseFloat(lat || latitude), parseFloat(lng || longitude)]
ConvertPoint(point) ==
    << parseFloat(Or(point.v.lat, point.v.latitude)),
       parseFloat(Or(point.v.lng, point.v.longitude)) >>

ConvertPath(path) ==
    LET kept == SelectSeq(path.v, PointIsUsable)
    IN [i \in 1..Len(kept) |-> ConvertPoint(kept[i])]

\* segment && segment.path && Array.isArray(segment.path)
SegmentHasPath(segment) ==
    Truthy(segment) /\ Truthy(segment.v.path) /\ IsArray(segment.v.path)

\* formatRoutePath: the first segment that has a path array decides
formatRoutePath(route) ==
    IF ~Truthy(route) \/ ~IsArray(route)
    THEN << >>
    ELSE LET found == {i \in 1..Len(route.v) : SegmentHasPath(route.v[i])}
         IN IF found = {}
            THEN << >>
            ELSE LET first == CHOOSE i \in found : \A j \in found : i <= j
                 IN ConvertPath(route.v[first].v.path)

\* data.map(shuttle => ({ ...shuttle, isActive: isShuttleActive(shuttle), ... }))
ProcessShuttles(data, clock) ==
    [i \in 1..Len(data) |->
        [id |-> data[i].id,
         latitude |-> data[i].latitude,
         longitude |-> data[i].longitude,
         activeStatus |-> data[i].activeStatus,
         prevLat |-> data[i].prevLat,
         prevLong |-> data[i].prevLong,
         speed |-> data[i].speed,
         lastActiveTime |-> data[i].lastActiveTime,
         route |-> data[i].route,
         isActive |-> isShuttleActive(data[i], clock),
         routePath |-> formatRoutePath(data[i].route)]]

ProcessingThrows(data) ==
    \E i \in 1..Len(data) : IsShuttleActiveThrows(data[i])

activeCount_CountsAll == Len(shuttles)
activeCount == Len(SelectSeq(shuttles, LAMBDA s : s.isActive))
totalCount == Len(shuttles)

\* the callback useShuttles hands to subscribeToShuttles
Callback(data) ==
    IF ProcessingThrows(data)
    THEN UNCHANGED hookVars
    ELSE /\ shuttles' = ProcessShuttles(data, now)
         /\ loading' = FALSE
         /\ lastUpdated' = << now >>
         /\ error' = null

\* the state of a useShuttles session that has not subscribed yet; `stopped`
\* records that the session's own cleanup has run
NotSubscribed ==
    [listener |-> "none", stopped |-> FALSE, shuttles |-> << >>,
     loading |-> TRUE, error |-> null, lastUpdated |-> << >>]

\* the callback of a session whose state is the record hook
CallbackOn(hook, data, clock) ==
    IF ProcessingThrows(data)
    THEN hook
    ELSE [hook EXCEPT !.shuttles = ProcessShuttles(data, clock),
                      !.loading = FALSE,
                      !.lastUpdated = << clock >>,
                      !.error = null]

\* off(shuttlesRef), called with neither an event type nor a callback,
\* removes every listener registered on the reference's location
Detached(hook) ==
    IF hook.listener = "listening" THEN [hook EXCEPT !.listener = "off"] ELSE hook

----------------------------------------------------------------------------
\* lastOp: the handler, the id it was given (or chose), the index of the
\* request it answered (or the number of entries of the payload), the user's
\* latitude and the error code
Op(op, id, n, userLat, code) ==
    [op |-> op, id |-> id, n |-> n, userLat |-> userLat, code |-> code]

Init ==
    /\ shuttles = << >>
    /\ loading = TRUE
    /\ error = null
    /\ lastUpdated = << >>
    /\ selectedShuttleId = null
    /\ nearestShuttleId = null
    /\ isLocating = FALSE
    /\ pending = << >>
    /\ alertMessage = ""
    /\ listener = "listening"
    /\ now = StartMs
    /\ pushDelivered = FALSE
    /\ feedFailed = FALSE
    /\ second = NotSubscribed
    /\ lastOp = Op("mount", null, 0, 0, "")

\* onValue's snapshot callback, run on the payload of one feed push
SnapshotCallback(data) ==
    /\ listener = "listening"
    /\ Callback(IF data # << >> THEN ShuttlesArray(data) ELSE << >>)
    /\ pushDelivered' = TRUE
    /\ alertMessage' = ""
    /\ UNCHANGED << second, selectionVars, isLocating, pending, listener, now, feedFailed >>

\* one feed push
OnValue(data) ==
    /\ SnapshotCallback(data)
    /\ lastOp' = Op("OnValue", null, Len(data), 0, "")

FeedPush == \E data \in Payloads : OnValue(data)

\* onValue's error callback: console.error, then callback([]); the store
\* cancels the listener
OnValueError ==
    /\ listener = "listening"
    /\ Callback(<< >>)
    /\ listener' = "cancelled"
    /\ feedFailed' = TRUE
    /\ alertMessage' = ""
    /\ lastOp' = Op("OnValueError", null, 0, 0, "")
    /\ UNCHANGED << second, selectionVars, isLocating, pending, now, pushDelivered >>

unsubscribe_KeepsListening ==
    /\ listener' = listener
    /\ alertMessage' = ""
    /\ lastOp' = Op("unsubscribe", null, 0, 0, "")
    /\ UNCHANGED << second, hookVars, selectionVars, isLocating, pending, now,
                    pushDelivered, feedFailed >>

\* the function subscribeToShuttles returns (useEffect's cleanup): off(shuttlesRef)
unsubscribe ==
    /\ listener' = "off"
    /\ second' = Detached(second)
    /\ alertMessage' = ""
    /\ lastOp' = Op("unsubscribe", null, 0, 0, "")
    /\ UNCHANGED << hookVars, selectionVars, isLocating, pending, now,
                    pushDelivered, feedFailed >>

\* time passes
Tick ==
    /\ now + TickMs <= StartMs + MaxTicks * TickMs
    /\ now' = now + TickMs
    /\ lastOp' = Op("Tick", null, 0, 0, "")
    /\ UNCHANGED << second, hookVars, selectionVars, isLocating, pending, alertMessage,
                    listener, pushDelivered, feedFailed >>

----------------------------------------------------------------------------
(* App.jsx: selection *)

\* mutant: the toggle branch clears the selection only
SelectOrToggle_ToggleKeepsNearest(selected, nearest, shuttleId) ==
    IF shuttleId = selected
    THEN [selectedShuttleId |-> null, nearestShuttleId |-> nearest]
    ELSE [selectedShuttleId |-> shuttleId,
          nearestShuttleId |-> IF shuttleId # nearest THEN null ELSE nearest]

\* mutant: selecting another shuttle never clears the nearest badge
SelectOrToggle_SelectKeepsNearest(selected, nearest, shuttleId) ==
    IF shuttleId = selected
    THEN [selectedShuttleId |-> null, nearestShuttleId |-> null]
    ELSE [selectedShuttleId |-> shuttleId, nearestShuttleId |-> nearest]

\* the two setters of handleShuttleSelect, as the state they leave
SelectOrToggle(selected, nearest, shuttleId) ==
    IF shuttleId = selected
    THEN [selectedShuttleId |-> null, nearestShuttleId |-> null]
    ELSE [selectedShuttleId |-> shuttleId,
          nearestShuttleId |-> IF shuttleId # nearest THEN null ELSE nearest]

handleShuttleSelect(shuttleId) ==
    LET r == SelectOrToggle(selectedShuttleId, nearestShuttleId, shuttleId)
    IN /\ selectedShuttleId' = r.selectedShuttleId
       /\ nearestShuttleId' = r.nearestShuttleId

\* a click on a card (or marker) of the current snapshot:
\* onSelect={() => onShuttleSelect(shuttle.id)}
ShuttleClick ==
    \E i \in 1..Len(shuttles) :
        /\ handleShuttleSelect(shuttles[i].id)
        /\ alertMessage' = ""
        /\ lastOp' = Op("ShuttleClick", shuttles[i].id, 0, 0, "")
        /\ UNCHANGED << second, hookVars, isLocating, pending, listener, now,
                        pushDelivered, feedFailed >>

\* MapView: a click on the map background
handleMapClick ==
    /\ IF Truthy(selectedShuttleId)
       THEN handleShuttleSelect(null)
       ELSE UNCHANGED selectionVars
    /\ alertMessage' = ""
    /\ lastOp' = Op("handleMapClick", null, 0, 0, "")
    /\ UNCHANGED << second, hookVars, isLocating, pending, listener, now,
                    pushDelivered, feedFailed >>

----------------------------------------------------------------------------
(* App.jsx: nearest search *)

\* calculateDistance is the haversine distance in km.  The model places
\* vehicles and user on a small integer grid and uses the squared planar
\* distance, which orders the grid's points as the haversine distance does
\* (equal latitude offsets on one meridian are exact ties in both).
calculateDistance(lat1, lon1, lat2, lon2) ==
    (lat2 - lat1) * (lat2 - lat1) + (lon2 - lon1) * (lon2 - lon1)

Infinity == [inf |-> TRUE, d |-> 0]
Finite(d) == [inf |-> FALSE, d |-> d]

\* mutant: distance <= minDistance
LessThan_OrEqual(distance, minDistance) == minDistance.inf \/ distance <= minDistance.d

\* distance < minDistance
LessThan(distance, minDistance) == minDistance.inf \/ distance < minDistance.d

\* shuttle.latitude && shuttle.longitude
HasPosition(shuttle) == shuttle.latitude # 0 /\ shuttle.longitude # 0

\* the forEach of the success callback, from element i on: acc holds
\* nearestShuttle (an index of activeShuttles, 0 for null) and minDistance
RECURSIVE ForEachNearest(_, _, _, _, _)
ForEachNearest(activeShuttles, i, userLat, userLng, acc) ==
    IF i > Len(activeShuttles)
    THEN acc
    ELSE LET shuttle == activeShuttles[i]
             distance == calculateDistance(userLat, userLng,
                                           shuttle.latitude, shuttle.longitude)
             step == IF HasPosition(shuttle) /\ LessThan(distance, acc.minDistance)
                     THEN [nearestShuttle |-> i, minDistance |-> Finite(distance)]
                     ELSE acc
         IN ForEachNearest(activeShuttles, i + 1, userLat, userLng, step)

\* index in activeShuttles of the nearest shuttle, 0 when there is none
NearestShuttle(activeShuttles, userLat, userLng) ==
    ForEachNearest(activeShuttles, 1, userLat, userLng,
                   [nearestShuttle |-> 0, minDistance |-> Infinity]).nearestShuttle

NoActiveMessage == "No active shuttles available"

\* handleFindNearest (navigator.geolocation is supported)
handleFindNearest ==
    LET activeShuttles == SelectSeq(shuttles, LAMBDA s : s.isActive)
    IN /\ IF Len(activeShuttles) = 0
          THEN /\ alertMessage' = NoActiveMessage
               /\ UNCHANGED << isLocating, pending >>
          ELSE /\ isLocating' = TRUE
               /\ pending' = Append(pending, [activeShuttles |-> activeShuttles])
               /\ alertMessage' = ""
       /\ lastOp' = Op("handleFindNearest", null, 0, 0, "")
       /\ UNCHANGED << second, hookVars, selectionVars, listener, now, pushDelivered,
                       feedFailed >>

FindNearestClick_NeverDisabled ==
    /\ Len(pending) < MaxInFlight
    /\ handleFindNearest

\* Header: the find-nearest button, disabled={isLocating || activeCount === 0}
FindNearestClick ==
    /\ ~(isLocating \/ activeCount = 0)
    /\ handleFindNearest

\* the handler invoked through the onFindNearest prop, whatever the button shows
FindNearestCall ==
    /\ Len(pending) < MaxInFlight
    /\ handleFindNearest

Remove(seq, i) == SubSeq(seq, 1, i - 1) \o SubSeq(seq, i + 1, Len(seq))

\* mutant: the success callback marks the nearest shuttle without selecting it
StoreNearest_BadgeOnly(activeShuttles, nearest, selected, previous) ==
    IF nearest # 0
    THEN [selectedShuttleId |-> selected,
          nearestShuttleId |-> activeShuttles[nearest].id]
    ELSE [selectedShuttleId |-> selected, nearestShuttleId |-> previous]

\* what the success callback stores, given the index of the nearest shuttle
StoreNearest(activeShuttles, nearest, selected, previous) ==
    IF nearest # 0
    THEN [selectedShuttleId |-> activeShuttles[nearest].id,
          nearestShuttleId |-> activeShuttles[nearest].id]
    ELSE [selectedShuttleId |-> selected, nearestShuttleId |-> previous]

GeoSuccess_LocatingUntilFound(i, userLat) ==
    /\ i \in 1..Len(pending)
    /\ LET activeShuttles == pending[i].activeShuttles
           nearest == NearestShuttle(activeShuttles, userLat, UserLng)
           r == StoreNearest(activeShuttles, nearest, selectedShuttleId,
                             nearestShuttleId)
       IN /\ selectedShuttleId' = r.selectedShuttleId
          /\ nearestShuttleId' = r.nearestShuttleId
          /\ isLocating' = IF nearest # 0 THEN FALSE ELSE isLocating
    /\ pending' = Remove(pending, i)
    /\ alertMessage' = ""
    /\ lastOp' = Op("GeoSuccess", null, i, userLat, "")
    /\ UNCHANGED << second, hookVars, listener, now, pushDelivered, feedFailed >>

\* getCurrentPosition's success callback of the i-th outstanding request
GeoSuccess(i, userLat) ==
    /\ i \in 1..Len(pending)
    /\ LET activeShuttles == pending[i].activeShuttles
           nearest == NearestShuttle(activeShuttles, userLat, UserLng)
           r == StoreNearest(activeShuttles, nearest, selectedShuttleId,
                             nearestShuttleId)
       IN /\ selectedShuttleId' = r.selectedShuttleId
          /\ nearestShuttleId' = r.nearestShuttleId
    /\ isLocating' = FALSE
    /\ pending' = Remove(pending, i)
    /\ alertMessage' = ""
    /\ lastOp' = Op("GeoSuccess", null, i, userLat, "")
    /\ UNCHANGED << second, hookVars, listener, now, pushDelivered, feedFailed >>

\* mutant: the switch without its break statements
ErrorMessage_Fallthrough(code) ==
    CASE code \in {"PERMISSION_DENIED", "POSITION_UNAVAILABLE", "TIMEOUT"} ->
           "Location request timed out."
      [] OTHER -> "Unable to get your location"

ErrorMessage(code) ==
    CASE code = "PERMISSION_DENIED" ->
           "Location access denied. Please allow location access to find the nearest shuttle."
      [] code = "POSITION_UNAVAILABLE" -> "Location information is unavailable."
      [] code = "TIMEOUT" -> "Location request timed out."
      [] OTHER -> "Unable to get your location"

\* getCurrentPosition's error callback of the i-th outstanding request
GeoError(i, code) ==
    /\ i \in 1..Len(pending)
    /\ isLocating' = FALSE
    /\ alertMessage' = ErrorMessage(code)
    /\ pending' = Remove(pending, i)
    /\ lastOp' = Op("GeoError", null, i, 0, code)
    /\ UNCHANGED << second, hookVars, selectionVars, listener, now, pushDelivered,
                    feedFailed >>

PositionArrives == \E i \in 1..Len(pending), userLat \in UserLats : GeoSuccess(i, userLat)
PositionFails == \E i \in 1..Len(pending), code \in ErrorCodes : GeoError(i, code)

----------------------------------------------------------------------------
\* the application as the user drives it
Next ==
    \/ FeedPush
    \/ OnValueError
    \/ unsubscribe
    \/ Tick
    \/ ShuttleClick
    \/ handleMapClick
    \/ FindNearestClick
    \/ PositionArrives
    \/ PositionFails

Spec == Init /\ [][Next]_vars

\* the controller's operations invoked directly by a collaborator: the
\* handler has no guard of its own against a request in flight.  The feed
\* of this specification pushes well-formed, positioned vehicles only.
PositionedEntries ==
    { e \in RawEntries : /\ e.id = undefined
                         /\ e.activeStatus \in {Str("active"), Str("ACTIVE")} }

PositionedPayloads ==
    { data \in Payloads : \A i \in 1..Len(data) : data[i].shuttle \in PositionedEntries }

PositionedPush == \E data \in PositionedPayloads : OnValue(data)

NextController ==
    \/ PositionedPush
    \/ ShuttleClick
    \/ handleMapClick
    \/ FindNearestCall
    \/ PositionArrives
    \/ PositionFails

SpecController == Init /\ [][NextController]_vars

----------------------------------------------------------------------------
(* The nearest search against the live feed: the geolocation provider      *)
(* answers every getCurrentPosition call, with a position or with an error *)
(* (the call is made with timeout: 10000).                                 *)

NextLocating ==
    \/ FeedPush
    \/ FindNearestClick
    \/ PositionArrives
    \/ PositionFails

SpecLocating ==
    /\ Init
    /\ [][NextLocating]_vars
    /\ WF_vars(PositionArrives \/ PositionFails)

----------------------------------------------------------------------------
(* Two useShuttles sessions on the same feed: each calls                   *)
(* subscribeToShuttles, which registers its listener on ref(database).     *)

\* the second session mounts: onValue(shuttlesRef, ...)
subscribeSecond ==
    /\ second.listener = "none"
    /\ second' = [second EXCEPT !.listener = "listening"]
    /\ alertMessage' = ""
    /\ lastOp' = Op("subscribeSecond", null, 0, 0, "")
    /\ UNCHANGED << hookVars, selectionVars, isLocating, pending, listener, now,
                    pushDelivered, feedFailed >>

\* the second session's cleanup: off(shuttlesRef)
unsubscribeSecond ==
    /\ second.listener # "none"
    /\ second' = [second EXCEPT !.listener = "off", !.stopped = TRUE]
    /\ listener' = IF listener = "listening" THEN "off" ELSE listener
    /\ alertMessage' = ""
    /\ lastOp' = Op("unsubscribeSecond", null, 0, 0, "")
    /\ UNCHANGED << hookVars, selectionVars, isLocating, pending, now,
                    pushDelivered, feedFailed >>

\* one feed push: the store runs the snapshot callback of every listener
\* that is registered
OnValueAll(data) ==
    /\ listener = "listening" \/ second.listener = "listening"
    /\ IF listener = "listening"
       THEN Callback(Normalized(data))
       ELSE UNCHANGED hookVars
    /\ second' = IF second.listener = "listening"
                 THEN CallbackOn(second, Normalized(data), now)
                 ELSE second
    /\ pushDelivered' = TRUE
    /\ alertMessage' = ""
    /\ lastOp' = Op("OnValue", null, Len(data), 0, "")
    /\ UNCHANGED << selectionVars, isLocating, pending, listener, now, feedFailed >>

FeedPushAll == \E data \in Payloads : OnValueAll(data)

NextTwoSessions ==
    \/ subscribeSecond
    \/ FeedPushAll
    \/ unsubscribe
    \/ unsubscribeSecond
    \/ Tick

SpecTwoSessions == Init /\ [][NextTwoSessions]_vars

----------------------------------------------------------------------------
(* The synchronization session alone, fed with every shape of entry the    *)
(* normalizer, the classifier and formatRoutePath distinguish; lastOp      *)
(* keeps the payload of the push.                                          *)

\* a route point with its four coordinate fields, and a route segment
Point(lat, lng, latitude, longitude) ==
    Val("object", [lat |-> lat, lng |-> lng,
                   latitude |-> latitude, longitude |-> longitude])
Segment(path) == Val("object", [path |-> path])

PointA == Point(Num("1"), Num("1"), undefined, undefined)
PointB == Point(undefined, undefined, Str("2"), Str("2"))
PointC == Point(Num("3"), Num("1"), undefined, undefined)
NoCoordinates == Point(undefined, undefined, undefined, undefined)

\* values of the `route` field
Routes ==
    { undefined,
      Str("x"),
      Arr(<< Segment(Arr(<< PointA >>)) >>),
      Arr(<< Segment(Arr(<< PointA, PointB >>)) >>),
      Arr(<< Segment(undefined), Segment(Arr(<< PointB, PointA >>)) >>),
      Arr(<< Segment(Arr(<< NoCoordinates >>)), Segment(Arr(<< PointA, PointB >>)) >>),
      Arr(<< Segment(Arr(<< PointA, NoCoordinates, PointB >>)),
             Segment(Arr(<< PointC, PointA >>)) >>) }

WithRoute(e, route) == [e EXCEPT !.route = route]
WithLongitude(e, longitude) == [e EXCEPT !.longitude = longitude]
WithMotion(e, prevLat, prevLong, speed) ==
    [e EXCEPT !.prevLat = prevLat, !.prevLong = prevLong, !.speed = speed]

\* a value that is not an object has none of the fields
NotAnObject == Entry(undefined, undefined, undefined, undefined, undefined)

SessionEntries ==
    { WithRoute(Entry(undefined, Str("1"), Str("1"), Str("active"), undefined), r) :
        r \in Routes }
    \cup { NotAnObject,
           Entry(Str(""), Str("2"), Str("1"), Str("1"), undefined),
           Entry(undefined, Str("2"), Str("1"), Str("inactive"), Str("150000")),
           Entry(undefined, Str("2"), Str("1"), undefined, Str("150000")),
           Entry(undefined, Str("2"), Str("1"), Str("True"), Str("0")),
           Entry(undefined, Str("1"), Str("1"), Val("boolean", "true"), Str("150000")),
           WithMotion(Entry(undefined, Str("3"), Str("2"), Str("active"), undefined),
                      Str("n/a"), Num("2"), Str("12")),
           WithLongitude(Entry(undefined, Str("1"), undefined, Str("inactive"), undefined),
                         Str("3")),
           WithLongitude(Entry(undefined, Str("1"), Str("2"), Str("inactive"), undefined),
                         Str("3")) }

\* the entries a two-entry payload holds under its second key
SecondEntries ==
    { Entry(undefined, Str("2"), Str("1"), Str("inactive"), Str("150000")),
      Entry(Str(""), Str("2"), Str("1"), Str("1"), undefined),
      Entry(undefined, Str("1"), Str("1"), Val("boolean", "true"), Str("150000")) }

SessionPayloads ==
    { << >> }
    \cup { << [key |-> Keys[1], shuttle |-> e] >> : e \in SessionEntries }
    \cup { << [key |-> Keys[1], shuttle |-> e1], [key |-> Keys[2], shuttle |-> e2] >> :
             e1 \in SessionEntries, e2 \in SecondEntries }

\* one feed push, its payload kept in lastOp
SessionPush ==
    \E data \in SessionPayloads :
        /\ SnapshotCallback(data)
        /\ lastOp' = [op |-> "OnValue", id |-> null, n |-> Len(data),
                      userLat |-> 0, code |-> "", data |-> data]

NextSession ==
    \/ SessionPush
    \/ OnValueError
    \/ unsubscribe
    \/ Tick

SpecSession == Init /\ [][NextSession]_vars

----------------------------------------------------------------------------
(* Properties *)

\* the ids a click can pass to handleShuttleSelect: the ids a snapshot can
\* hold, and null (the map background)
SelectableIds == { Str(Keys[1]), Str(Keys[2]), Str(""), null }

\* the candidates of a nearest search: active records with a valid
\* (non-zero) position
Candidates(activeShuttles) ==
    { j \in 1..Len(activeShuttles) :
        /\ activeShuttles[j].isActive
        /\ activeShuttles[j].latitude # 0
        /\ activeShuttles[j].longitude # 0 }

DistanceTo(activeShuttles, j, userLat) ==
    calculateDistance(userLat, UserLng,
                      activeShuttles[j].latitude, activeShuttles[j].longitude)

\* w has the minimum distance, and comes first among those that have it
IsWinner(activeShuttles, w, userLat) ==
    /\ w \in Candidates(activeShuttles)
    /\ \A j \in Candidates(activeShuttles) :
          /\ DistanceTo(activeShuttles, w, userLat) <= DistanceTo(activeShuttles, j, userLat)
          /\ DistanceTo(activeShuttles, j, userLat) = DistanceTo(activeShuttles, w, userLat)
                => w <= j

\* C1: in every reachable state nearestId is unset or equal to selectedId
C1_NearestIsSelected ==
    nearestShuttleId = null \/ nearestShuttleId = selectedShuttleId

\* C1 witness: a nearest search has marked a shuttle, and it is the selected one
C1_Witness ==
    nearestShuttleId # null /\ nearestShuttleId = selectedShuttleId

\* C2, the consequence: from a state whose selectedId is not id, two
\* consecutive selectOrToggle(id) end with selectedId unset
C2_TwoCallsUnset ==
    \A id \in SelectableIds :
        id # selectedShuttleId =>
            LET r1 == SelectOrToggle(selectedShuttleId, nearestShuttleId, id)
                r2 == SelectOrToggle(r1.selectedShuttleId, r1.nearestShuttleId, id)
            IN r2.selectedShuttleId = null

\* C2, the step: selectOrToggle(id) with id the current selectedId clears
\* selectedId and nearestId
C2_ToggleStep ==
    (lastOp'.op = "ShuttleClick" /\ lastOp'.id = selectedShuttleId)
        => (selectedShuttleId' = null /\ nearestShuttleId' = null)

\* C2: selectOrToggle(id) on the selected id clears both selectedId and
\* nearestId, and two consecutive selectOrToggle(id) from a state whose
\* selectedId is not id end with selectedId unset
C2_ToggleClears == []C2_TwoCallsUnset /\ [][C2_ToggleStep]_vars

\* C2 witness: a click on the selected shuttle has just deselected it
C2_Witness ==
    lastOp.op = "ShuttleClick" /\ selectedShuttleId = null

\* C3: selectOrToggle(id) with id different from selectedId sets selectedId to
\* id and unsets nearestId, unless id is the nearestId held before the call,
\* which is then left unchanged
C3_SelectOther ==
    [][ ( /\ \/ lastOp'.op = "ShuttleClick"
             \/ (lastOp'.op = "handleMapClick" /\ Truthy(selectedShuttleId))
          /\ lastOp'.id # selectedShuttleId )
        => ( /\ selectedShuttleId' = lastOp'.id
             /\ nearestShuttleId' = IF lastOp'.id = nearestShuttleId
                                    THEN nearestShuttleId
                                    ELSE null ) ]_vars

\* C3 witness: a click has just selected a shuttle, which carries no nearest badge
C3_Witness ==
    /\ lastOp.op = "ShuttleClick"
    /\ selectedShuttleId = lastOp.id
    /\ nearestShuttleId = null

C5_NearestWinner ==
    [][ ( /\ lastOp'.op = "GeoSuccess"
          /\ Candidates(pending[lastOp'.n].activeShuttles) # {} )
        => LET activeShuttles == pending[lastOp'.n].activeShuttles
           IN \E w \in 1..Len(activeShuttles) :
                 /\ IsWinner(activeShuttles, w, lastOp'.userLat)
                 /\ selectedShuttleId' = activeShuttles[w].id
                 /\ nearestShuttleId' = activeShuttles[w].id ]_vars

\* C5 witness: a position has just arrived and the search has selected and
\* marked a shuttle
C5_Witness ==
    /\ lastOp.op = "GeoSuccess"
    /\ nearestShuttleId # null
    /\ selectedShuttleId = nearestShuttleId

\* C6: the search fails with the NoActiveVehicles notice whenever no record
\* is active with a valid position, also when some records are active
C6_NoCandidatesNotice ==
    [][ ( /\ lastOp'.op = "GeoSuccess"
          /\ Candidates(pending[lastOp'.n].activeShuttles) = {} )
        => alertMessage' = NoActiveMessage ]_vars

\* C7: the result of a request that a later request has superseded changes
\* neither selectedId nor nearestId
C7_StaleDiscarded ==
    [][ (lastOp'.op = "GeoSuccess" /\ lastOp'.n < Len(pending))
        => UNCHANGED selectionVars ]_vars

\* C8, the step: a location failure raises a notice of its own and leaves the
\* selection, the snapshot and the subscription as they were
C8_FailureStep ==
    lastOp'.op = "GeoError"
        => /\ alertMessage' \notin {"", NoActiveMessage}
           /\ \A code \in ErrorCodes \ {lastOp'.code} : alertMessage' # ErrorMessage(code)
           /\ UNCHANGED << selectionVars, hookVars, listener >>

\* C8, afterwards: the session still takes feed pushes, selections and a new
\* nearest search
C8_NotFatal ==
    lastOp.op = "GeoError"
        => /\ ~isLocating
           /\ listener = "listening" => ENABLED FeedPush
           /\ shuttles # << >> => ENABLED ShuttleClick
           /\ ENABLED handleMapClick
           /\ (activeCount # 0 /\ pending = << >>) => ENABLED FindNearestClick

\* C8: each location failure is surfaced as its own notice, leaves selectedId
\* and nearestId unchanged, and is not fatal to the session
C8_LocationFailure == []C8_NotFatal /\ [][C8_FailureStep]_vars

\* C8 witness: a request has just timed out while a shuttle was selected
C8_Witness ==
    /\ lastOp.op = "GeoError"
    /\ lastOp.code = "TIMEOUT"
    /\ selectedShuttleId # null
    /\ listener = "listening"

\* C9: once the feed's error callback has fired the session surfaces a
\* non-empty error signal
C9_ErrorSurfaced ==
    feedFailed => error # null

\* C10: loading is true before the first feed push is delivered and false
\* after it; an empty feed root gives totalCount = 0, activeCount = 0 and
\* loading false
C10_Loading ==
    /\ ~pushDelivered => loading
    /\ pushDelivered => ~loading
    /\ (lastOp.op = "OnValue" /\ lastOp.n = 0)
          => (totalCount = 0 /\ activeCount = 0 /\ ~loading)

----------------------------------------------------------------------------
(* Properties of the synchronization session (SpecSession) *)

\* the payload of the push that ran last, and its entries as the normalizer
\* emits them
LatestPayload == lastOp.data
LatestNormalized ==
    IF LatestPayload # << >> THEN ShuttlesArray(LatestPayload) ELSE << >>

\* C11: right after a feed push the snapshot is exactly the normalized,
\* classified result of that push alone: nothing of an earlier push survives
\* unless the latest push holds it too.
C11_LatestPushAlone ==
    lastOp.op = "OnValue" => shuttles = ProcessShuttles(LatestNormalized, now)

\* C12: totalCount is the number of records of the snapshot, activeCount the
\* number of those whose isActive is true, so activeCount <= totalCount.
C12_Counts ==
    /\ totalCount = Cardinality(DOMAIN shuttles)
    /\ activeCount = Cardinality({i \in DOMAIN shuttles : shuttles[i].isActive})
    /\ activeCount <= totalCount

C12_Witness ==
    /\ lastOp.op = "OnValue"
    /\ totalCount = 2
    /\ activeCount = 1

\* C13: stop() releases the subscription; from then on no feed push changes
\* the snapshot, lastUpdated or loading, and a further stop() changes nothing.
C13_StopIsFinal ==
    /\ [](lastOp.op = "unsubscribe" => listener = "off")
    /\ [][listener = "off" => UNCHANGED << hookVars, listener >>]_vars

C13_Witness ==
    /\ lastOp.op = "unsubscribe"
    /\ listener = "off"
    /\ pushDelivered
    /\ shuttles # << >>
    /\ ~loading

\* C14: the snapshot holds at most one record per top-level key, every record
\* has a non-empty id, and no two records share an id.
C14_UniqueNonEmptyIds ==
    /\ Len(shuttles) <= Len(Keys)
    /\ \A i \in DOMAIN shuttles :
          /\ shuttles[i].id.t = "string"
          /\ shuttles[i].id.v # ""
          /\ \A j \in DOMAIN shuttles : i # j => shuttles[i].id # shuttles[j].id

\* the longitude the feed's entry gives: the `longitude` key when it yields a
\* number, else the `logitude` key, else 0
LongitudeOf(shuttle) ==
    IF ~parseFloat(shuttle.longitude).nan
    THEN parseFloat(shuttle.longitude).n
    ELSE ParseOrZero(shuttle.logitude)

\* C15: the normalized longitude of every entry of a push comes from the
\* entry's `longitude` key when present, from `logitude` when only that is
\* present, and is 0 only when neither yields a number.
C15_LongitudeKey ==
    lastOp.op = "OnValue" =>
        \A i \in DOMAIN LatestPayload :
            LatestNormalized[i].longitude = LongitudeOf(LatestPayload[i].shuttle)

\* C16: a malformed entry does not abort the push: the snapshot has one record
\* per entry, under the entry's id, and every entry that is not malformed
\* appears processed as usual.
C16_MalformedDegraded ==
    lastOp.op = "OnValue" =>
        /\ Len(shuttles) = Len(LatestPayload)
        /\ \A i \in DOMAIN LatestPayload :
              /\ shuttles[i].id = LatestNormalized[i].id
              /\ ~IsShuttleActiveThrows(LatestNormalized[i])
                    => shuttles[i] = ProcessShuttles(LatestNormalized, now)[i]

\* the status says active: a text equal to "active", "true" or "1" whatever
\* its case
StatusSaysActive(status) ==
    status.t = "string" /\ toLowerCase(status.v) \in {"active", "true", "1"}

\* lastActiveTime is present, not zero, an integer, and less than five
\* minutes before the clock's reading (a later time included)
SeenRecently(lastActiveTime, clock) ==
    /\ lastActiveTime.t \in {"string", "number"}
    /\ lastActiveTime.v \in NumericText \ {"0"}
    /\ clock - TextToNumber(lastActiveTime.v) < fiveMinutes

\* C17: for every entry of a push isShuttleActive yields a boolean: true
\* exactly when the status says active or else the shuttle was seen within
\* five minutes, false in every other case.
C17_Classifier ==
    lastOp.op = "OnValue" =>
        \A i \in DOMAIN LatestPayload :
            /\ ~IsShuttleActiveThrows(LatestNormalized[i])
            /\ isShuttleActive(LatestNormalized[i], now)
                  <=> \/ StatusSaysActive(LatestNormalized[i].activeStatus)
                      \/ SeenRecently(LatestNormalized[i].lastActiveTime, now)

\* readings of the clock the classifier is compared at
ClockReadings == {k * TickMs : k \in 0..MaxReadings}

\* C18: a record whose status is absent or "inactive" and that is active at
\* one reading of the clock is active at every earlier reading (a smaller
\* elapsed time).
C18_FreshnessMonotone ==
    \A i \in DOMAIN shuttles :
        shuttles[i].activeStatus \in {undefined, Str("inactive")} =>
            \A earlier \in ClockReadings, later \in ClockReadings :
                (earlier <= later /\ isShuttleActive(shuttles[i], later))
                    => isShuttleActive(shuttles[i], earlier)

C18_Witness ==
    \E i \in DOMAIN shuttles :
        /\ shuttles[i].activeStatus \in {undefined, Str("inactive")}
        /\ shuttles[i].isActive
        /\ \E later \in ClockReadings : ~isShuttleActive(shuttles[i], later)

\* C19: the routePath of every record of the snapshot is empty or has at
\* least two points.
C19_PathEmptyOrLine ==
    \A i \in DOMAIN shuttles :
        Len(shuttles[i].routePath) = 0 \/ Len(shuttles[i].routePath) >= 2

\* the points of the first segment, in route order, whose path has a usable
\* point
FirstUsablePath(route) ==
    IF ~IsArray(route)
    THEN << >>
    ELSE LET usable == {i \in 1..Len(route.v) :
                           /\ SegmentHasPath(route.v[i])
                           /\ ConvertPath(route.v[i].v.path) # << >>}
         IN IF usable = {}
            THEN << >>
            ELSE ConvertPath(route.v[CHOOSE i \in usable : \A j \in usable : i <= j].v.path)

\* C20: for the route of every entry of a push formatRoutePath returns the
\* points of the first segment that has a usable path, and the empty
\* sequence only when no segment has one.
C20_FirstUsableSegment ==
    lastOp.op = "OnValue" =>
        \A i \in DOMAIN LatestPayload :
            formatRoutePath(LatestPayload[i].shuttle.route)
                = FirstUsablePath(LatestPayload[i].shuttle.route)

\* the number a field of the entry gives: the number its decimal text or its
\* number denotes, 0 when the field is missing or is not a numeric text
NumberOrZero(raw) ==
    IF raw.t \in {"string", "number"} /\ raw.v \in NumericText
    THEN TextToNumber(raw.v)
    ELSE 0

\* C21: every numeric field of every normalized record of a push (latitude,
\* longitude read from `logitude`, prevLat, prevLong, speed) is a number: the
\* number the entry's field denotes, 0 when that field is missing or
\* unparseable.
C21_ParseOrZero ==
    lastOp.op = "OnValue" =>
        \A i \in DOMAIN LatestPayload :
            LET raw == LatestPayload[i].shuttle
                record == LatestNormalized[i]
            IN /\ {record.latitude, record.longitude, record.prevLat,
                   record.prevLong, record.speed} \subseteq Int
               /\ record.latitude = NumberOrZero(raw.latitude)
               /\ record.longitude = NumberOrZero(raw.logitude)
               /\ record.prevLat = NumberOrZero(raw.prevLat)
               /\ record.prevLong = NumberOrZero(raw.prevLong)
               /\ record.speed = NumberOrZero(raw.speed)

\* C21 witness: the push { s1: { latitude: "3", logitude: "2", speed: "12",
\* prevLat: "n/a", prevLong: 2, activeStatus: "active" } } has given one
\* record with latitude 3, longitude 2, speed 12, prevLat 0 and isActive true
C21_Witness ==
    /\ lastOp.op = "OnValue"
    /\ Len(LatestPayload) = 1
    /\ LatestPayload[1].shuttle.speed = Str("12")
    /\ LatestPayload[1].shuttle.prevLat = Str("n/a")
    /\ Len(shuttles) = 1
    /\ shuttles[1].id = Str("s1")
    /\ shuttles[1].latitude = 3
    /\ shuttles[1].longitude = 2
    /\ shuttles[1].speed = 12
    /\ shuttles[1].prevLat = 0
    /\ shuttles[1].prevLong = 2
    /\ shuttles[1].isActive

----------------------------------------------------------------------------
(* Properties of the application while a position is awaited *)

\* C22: a feed push that arrives while a getCurrentPosition call awaits its
\* callback is processed at once: the snapshot becomes the processed payload,
\* totalCount its number of entries and lastUpdated the time of the push.
C22_PushNotBlocked ==
    [][ (lastOp'.op = "OnValue" /\ pending # << >>)
        => ( /\ lastUpdated' = << now >>
             /\ totalCount' = lastOp'.n
             /\ \E data \in Payloads :
                   /\ Len(data) = lastOp'.n
                   /\ shuttles' = ProcessShuttles(Normalized(data), now) ) ]_vars

\* C23: when a nearest search succeeds, the id it stores in selectedId and
\* nearestId is the id of a record that is present and active in the snapshot
\* current when the position arrives.
C23_WinnerIsCurrent ==
    [][ ( /\ lastOp'.op = "GeoSuccess"
          /\ Candidates(pending[lastOp'.n].activeShuttles) # {} )
        => \E i \in DOMAIN shuttles' :
              /\ shuttles'[i].isActive
              /\ shuttles'[i].id = selectedShuttleId'
              /\ shuttles'[i].id = nearestShuttleId' ]_vars

\* C24: at most one getCurrentPosition call is outstanding, isLocating is
\* true exactly while one is, and the find-nearest button cannot start a
\* request while isLocating is true or activeCount is 0.
C24_OneAcquisition ==
    /\ Len(pending) <= 1
    /\ isLocating <=> pending # << >>
    /\ (isLocating \/ activeCount = 0) => ~ENABLED FindNearestClick

\* C24 witness: a request is outstanding and a feed push has arrived meanwhile
C24_Witness ==
    /\ lastOp.op = "OnValue"
    /\ isLocating
    /\ Len(pending) = 1
    /\ activeCount > 0

\* C25: every started nearest search returns isLocating to false: the
\* success callback does, with or without a winner, and the error callback
\* does for each failure reason; and one of them runs.
C25_SearchEnds ==
    /\ isLocating ~> ~isLocating
    /\ [][lastOp'.op \in {"GeoSuccess", "GeoError"} => ~isLocating']_vars

\* C25 witness: a position has arrived for a search that found no active
\* record with a valid position, and isLocating is false again
C25_Witness ==
    /\ lastOp.op = "GeoSuccess"
    /\ ~isLocating
    /\ activeCount > 0
    /\ selectedShuttleId = null
    /\ nearestShuttleId = null

----------------------------------------------------------------------------
(* Properties of two sessions on one feed (SpecTwoSessions) *)

\* C26: a session that has subscribed and whose own stop() has not been
\* called still has its listener registered, whatever the other session has
\* done, so that every later push reaches it.
C26_OtherKeepsListening ==
    (second.listener # "none" /\ ~second.stopped) => second.listener = "listening"

====
